---- MODULE Spec2Model ----
(***************************************************************************)
(* Model of scripts/camoufox-session.py: the three CLI modes (export,      *)
(* login, fetch) run against one profile directory.                        *)
(*                                                                         *)
(* Strings the code splits or replaces (the proxy URL) are sequences of    *)
(* one-character strings.  A file is a record [exists, data] where data is *)
(* a sequence of JSON tokens: a bracket, or one serialized item (a cookie  *)
(* record, a localStorage key/value pair).  open(path, 'w') truncates;     *)
(* the dump is flushed at offset 0 when the file is closed.                *)
(*                                                                         *)
(* Faults of the environment: every call into the browser library and      *)
(* every open() of a file may raise; a write to a file already open does   *)
(* not.  The export destination, the import file, the screenshot and the   *)
(* HTML output are paths outside the profile directory.                    *)
(***************************************************************************)
EXTENDS Naturals, Sequences, FiniteSets, TLC

\* Longest cookie jar (number of cookie records) the browser hands back.
MaxJar == 2
\* Longest localStorage snapshot (number of key/value pairs).
MaxItems == 1

Procs == {1, 2}

Cookies == {"c1", "c2"}
Pairs == {"k1", "k2"}

\* The sequences of at most n elements of S, none twice: a cookie jar holds a
\* cookie once, localStorage a key once.
SeqsUpTo(S, n) ==
    {s \in UNION {[1..k -> S] : k \in 0..n} :
        \A i, j \in DOMAIN s : i # j => s[i] # s[j]}

\* The cookie lists page.context.cookies() can return, and the import files.
Jars == SeqsUpTo(Cookies, MaxJar)
\* The localStorage contents JSON.stringify(localStorage) can serialize.
Snapshots == SeqsUpTo(Pairs, MaxItems)

----------------------------------------------------------------------------
\* Python string operations used by the proxy parser.

RECURSIVE StrReplace(_, _)
\* s.replace(pat, ""): every non-overlapping occurrence, left to right.
StrReplace(s, pat) ==
    IF Len(s) < Len(pat) THEN s
    ELSE IF SubSeq(s, 1, Len(pat)) = pat
         THEN StrReplace(SubSeq(s, Len(pat) + 1, Len(s)), pat)
         ELSE <<Head(s)>> \o StrReplace(Tail(s), pat)

RECURSIVE StrSplit(_, _)
\* s.split(c) for a one-character separator: k separators give k+1 parts.
StrSplit(s, c) ==
    IF \A i \in 1..Len(s) : s[i] # c THEN <<s>>
    ELSE LET i == CHOOSE j \in 1..Len(s) :
                      s[j] = c /\ \A k \in 1..(j - 1) : s[k] # c
         IN  <<SubSeq(s, 1, i - 1)>> \o StrSplit(SubSeq(s, i + 1, Len(s)), c)

\* "@" in proxy
StrContains(s, c) == \E i \in 1..Len(s) : s[i] = c

HttpScheme == <<"h", "t", "t", "p", ":", "/", "/">>
HttpsScheme == <<"h", "t", "t", "p", "s", ":", "/", "/">>

\* Variant: the credentials keep their scheme prefix.
ParseProxyBuggy(proxy) ==
    IF StrContains(proxy, "@")
    THEN LET parts == StrSplit(proxy, "@")
             auth_part == parts[1]
             host_part == parts[2]
             up == StrSplit(auth_part, ":")
             hp == StrSplit(host_part, ":")
         IN  IF Len(up) = 2 /\ Len(hp) = 2
             THEN [ok |-> TRUE,
                   proxy |-> [server |-> HttpScheme \o hp[1] \o <<":">> \o hp[2],
                              username |-> up[1],
                              password |-> up[2]]]
             ELSE [ok |-> FALSE]
    ELSE [ok |-> TRUE, proxy |-> [server |-> proxy]]

\* The statements under "if proxy:" (the same text in login and in fetch).
\* ok = FALSE is the ValueError of a failed unpacking.
ParseProxy(proxy) ==
    IF StrContains(proxy, "@")
    THEN LET parts == StrSplit(proxy, "@")
             auth_part == StrReplace(StrReplace(parts[1], HttpScheme), HttpsScheme)
             host_part == parts[2]
             up == StrSplit(auth_part, ":")
             hp == StrSplit(host_part, ":")
         IN  IF Len(up) = 2 /\ Len(hp) = 2
             THEN [ok |-> TRUE,
                   proxy |-> [server |-> HttpScheme \o hp[1] \o <<":">> \o hp[2],
                              username |-> up[1],
                              password |-> up[2]]]
             ELSE [ok |-> FALSE]
    ELSE [ok |-> TRUE, proxy |-> [server |-> proxy]]

\* config = {"headless": ...} plus, "if proxy:", config["proxy"].  A proxy of
\* None or "" is falsy: <<>>.
BuildConfig(headless, proxy) ==
    IF proxy = <<>> THEN [ok |-> TRUE, config |-> [headless |-> headless]]
    ELSE LET r == ParseProxy(proxy)
         IN  IF r.ok
             THEN [ok |-> TRUE, config |-> [headless |-> headless, proxy |-> r.proxy]]
             ELSE [ok |-> FALSE]

----------------------------------------------------------------------------
\* JSON values and files.

Brackets == {"[", "]", "{", "}"}

List(items) == [kind |-> "list", items |-> items]
Dict(items) == [kind |-> "dict", items |-> items]

\* json.dump(value, f) / JSON.stringify(localStorage)
JsonDump(v) ==
    IF v.kind = "list" THEN <<"[">> \o v.items \o <<"]">>
    ELSE <<"{">> \o v.items \o <<"}">>

\* json.load(f) raises unless the text is one complete document.
JsonValid(data) ==
    /\ Len(data) >= 2
    /\ \/ data[1] = "[" /\ data[Len(data)] = "]"
       \/ data[1] = "{" /\ data[Len(data)] = "}"
    /\ \A i \in 2..(Len(data) - 1) : data[i] \notin Brackets

JsonLoad(data) ==
    [kind |-> IF data[1] = "[" THEN "list" ELSE "dict",
     items |-> SubSeq(data, 2, Len(data) - 1)]

NoFile == [exists |-> FALSE, data |-> <<>>]

\* Variant: the file is opened without truncation.
OpenKeep(file) == [exists |-> TRUE, data |-> file.data]

\* open(path, 'w'): creates the file or truncates it to length 0.
OpenW(file) == [exists |-> TRUE, data |-> <<>>]

\* The buffered text reaches the file at the handle's offset, 0, when the
\* "with" block closes it; bytes past its end stay as they are.
WriteAt0(file, text) ==
    [exists |-> TRUE,
     data |-> text \o SubSeq(file.data, Len(text) + 1, Len(file.data))]

----------------------------------------------------------------------------
\* State.

VARIABLES
    fs,     \* the profile directory and the export destination
    proc,   \* each invocation of the script: its position and its locals
    hist    \* what the invocations did so far (written by no branch of the code)

vars == <<fs, proc, hist>>

\* Arguments of --proxy tried in the runs of whole invocations.
ProxyArgs ==
    {<<>>,
     HttpScheme \o <<"u", ":", "p", "@", "h", ":", "8", "0">>,
     <<"h", ":", "8", "0">>,
     HttpScheme \o <<"u", "@", "h", ":", "8", "0">>}

\* What the file named by --import-cookies can hold.
ImportTexts == {JsonDump(List(j)) : j \in Jars}

NoConfig == [none |-> TRUE]

Idle ==
    [pc |-> "idle", mode |-> "none",
     proxy |-> <<>>, config |-> NoConfig,
     import_cookies |-> FALSE, import_data |-> <<>>,
     cookies |-> List(<<>>), new_cookies |-> List(<<>>),
     local_storage |-> <<>>, idx |-> 0,
     \* bookkeeping of the path taken: the file the cookies came from, whether
     \* cookies.json existed then, the list given to add_cookies, the last
     \* page.goto made, the two caught failures, and whether another invocation
     \* wrote the file this one holds open
     src |-> "none", had_session |-> FALSE, injected |-> <<>>, nav |-> "none",
     restore_failed |-> FALSE, ls_failed |-> FALSE, stale |-> FALSE]

NoHist ==
    [persisted |-> FALSE, lastPersist |-> List(<<>>),   \* last jar dumped to cookies.json
     ckClean |-> TRUE,                                  \* ... onto the file as its own open left it
     completed |-> FALSE, lastDone |-> List(<<>>),      \* jar of the last login/fetch that returned
     lsSaved |-> FALSE, lastLs |-> <<>>,                \* last text written to localStorage.json
     lsClean |-> TRUE]

\* The export destination is any path outside the profile: it may exist.
DestFiles == {NoFile, [exists |-> TRUE, data |-> <<"x">>]}

\* A new profile.
Init ==
    /\ fs = [dir |-> FALSE,
             cookies |-> NoFile, localStorage |-> NoFile, dest |-> NoFile]
    /\ proc = [p \in Procs |-> Idle]
    /\ hist = NoHist

Terminal == {"returned", "exited1", "exited2", "aborted"}

\* The invocation ends: its locals are gone.  An uncaught exception ends it
\* as "aborted".
Finish(p, how) ==
    proc' = [proc EXCEPT ![p] = [Idle EXCEPT !.pc = how, !.mode = proc[p].mode]]

Abort(p) == Finish(p, "aborted")

Step(p, pc, r) == proc' = [proc EXCEPT ![p] = [r EXCEPT !.pc = pc]]

\* get_profile_path: mkdir(parents=True, exist_ok=True)
get_profile_path(f) == [f EXCEPT !.dir = TRUE]

\* p writes a file and moves on as r; an invocation that has the same file
\* open for writing (it is at one of pcs) and has not written yet is overtaken.
WriteStep(p, pc, r, pcs) ==
    proc' = [q \in Procs |->
               IF q = p THEN [r EXCEPT !.pc = pc, !.stale = FALSE]
               ELSE IF proc[q].pc \in pcs THEN [proc[q] EXCEPT !.stale = TRUE]
               ELSE proc[q]]

----------------------------------------------------------------------------
\* main(): mode dispatch.

Dispatch(export_cookies, url, login) ==
    IF export_cookies THEN "export"
    ELSE IF ~url THEN "usage"
    ELSE IF login THEN "login"
    ELSE "fetch"

\* The operator starts the script with arguments drawn from the sets given.
\* fs.dest is the file at the path --export-cookies names (no file when the
\* option is absent).
StartWith(p, exports, imports, proxies) ==
    /\ proc[p].pc = "idle"
    /\ \E export_cookies \in exports, url, login \in BOOLEAN,
          import_cookies \in imports, proxy \in proxies, dest \in DestFiles :
        LET mode == Dispatch(export_cookies, url, login)
        IN  /\ mode \in {"login", "fetch"} \/ proxy = <<>>
            /\ mode = "fetch" \/ ~import_cookies
            /\ mode = "export" \/ dest = NoFile
            /\ fs' = [fs EXCEPT !.dest = IF mode = "export" THEN dest ELSE NoFile]
            /\ proc' = [proc EXCEPT ![p] =
                          [Idle EXCEPT
                             !.mode = mode,
                             !.pc = CASE mode = "export" -> "e_check"
                                      [] mode = "usage" -> "exited2"
                                      [] mode = "login" -> "l_paths"
                                      [] OTHER -> "f_paths",
                             !.proxy = proxy,
                             !.import_cookies = import_cookies]]
    /\ UNCHANGED hist

Start(p) == StartWith(p, BOOLEAN, BOOLEAN, ProxyArgs)

\* Two invocations at once: a login or a fetch each, from the profile's files.
StartConc(p) == StartWith(p, {FALSE}, {FALSE}, {<<>>})

\* The operator runs the script again once the previous run has ended.
Again(p) ==
    /\ proc[p].pc \in Terminal
    /\ proc' = [proc EXCEPT ![p] = Idle]
    /\ UNCHANGED <<fs, hist>>

----------------------------------------------------------------------------
\* export_cookies

\* Variant: no test that cookies.json exists.
ExportCheckMissing(p) ==
    /\ proc[p].pc = "e_check"
    /\ fs' = get_profile_path(fs)
    /\ Step(p, "e_read", proc[p])
    /\ UNCHANGED hist

\* cookies_path = get_cookies_path(...); if not cookies_path.exists(): exit(1)
ExportCheck(p) ==
    /\ proc[p].pc = "e_check"
    /\ fs' = get_profile_path(fs)
    /\ IF ~fs.cookies.exists THEN Finish(p, "exited1")
       ELSE Step(p, "e_read", proc[p])
    /\ UNCHANGED hist

\* with open(cookies_path, 'r') as f: cookies = json.load(f)
\* open() raises, or json.load does on a text that is no JSON document.
ExportRead(p) ==
    /\ proc[p].pc = "e_read"
    /\ \/ /\ fs.cookies.exists /\ JsonValid(fs.cookies.data)
          /\ Step(p, "e_open", [proc[p] EXCEPT !.cookies = JsonLoad(fs.cookies.data)])
       \/ Abort(p)
    /\ UNCHANGED <<fs, hist>>

\* with open(output_file, 'w') as f:
ExportOpen(p) ==
    /\ proc[p].pc = "e_open"
    /\ \/ /\ fs' = [fs EXCEPT !.dest = OpenW(@)]
          /\ Step(p, "e_dump", proc[p])
       \/ /\ Abort(p)
          /\ UNCHANGED fs
    /\ UNCHANGED hist

\*     json.dump(cookies, f, indent=2)
ExportDump(p) ==
    /\ proc[p].pc = "e_dump"
    /\ fs' = [fs EXCEPT !.dest = WriteAt0(@, JsonDump(proc[p].cookies))]
    /\ Step(p, "e_print", proc[p])
    /\ UNCHANGED hist

\* print(f"Exported {len(cookies)} cookies ...")
ExportPrint(p) ==
    /\ proc[p].pc = "e_print"
    /\ Finish(p, "returned")
    /\ UNCHANGED <<fs, hist>>

----------------------------------------------------------------------------
\* interactive_login

\* profile_path = get_profile_path(...); cookies_path = get_cookies_path(...)
LoginPaths(p) ==
    /\ proc[p].pc = "l_paths"
    /\ fs' = get_profile_path(fs)
    /\ Step(p, "l_proxy", proc[p])
    /\ UNCHANGED hist

\* config = {"headless": False}; if proxy: ...
LoginProxy(p) ==
    /\ proc[p].pc = "l_proxy"
    /\ LET r == BuildConfig(FALSE, proc[p].proxy)
       IN  IF r.ok THEN Step(p, "l_launch", [proc[p] EXCEPT !.config = r.config])
           ELSE Abort(p)
    /\ UNCHANGED <<fs, hist>>

\* async with AsyncCamoufox(**config) as browser: page = await browser.new_page()
LoginLaunch(p) ==
    /\ proc[p].pc = "l_launch"
    /\ \/ Step(p, "l_goto", [proc[p] EXCEPT !.proxy = <<>>, !.config = NoConfig])
       \/ Abort(p)
    /\ UNCHANGED <<fs, hist>>

\* await page.goto(url, wait_until="domcontentloaded")
LoginGoto(p) ==
    /\ proc[p].pc = "l_goto"
    /\ \/ Step(p, "l_input", [proc[p] EXCEPT !.nav = "direct"])
       \/ Abort(p)
    /\ UNCHANGED <<fs, hist>>

\* input(...): the operator confirms, or interrupts (EOFError, Ctrl-C).
LoginInput(p) ==
    /\ proc[p].pc = "l_input"
    /\ \/ Step(p, "l_cookies", proc[p])
       \/ Abort(p)
    /\ UNCHANGED <<fs, hist>>

\* cookies = await page.context.cookies()
LoginCookies(p) ==
    /\ proc[p].pc = "l_cookies"
    /\ \/ \E jar \in Jars : Step(p, "l_open", [proc[p] EXCEPT !.cookies = List(jar)])
       \/ Abort(p)
    /\ UNCHANGED <<fs, hist>>

\* with open(cookies_path, 'w') as f:
LoginOpen(p) ==
    /\ proc[p].pc = "l_open"
    /\ \/ /\ fs' = [fs EXCEPT !.cookies = OpenW(@)]
          /\ Step(p, "l_dump", [proc[p] EXCEPT !.stale = FALSE])
       \/ /\ Abort(p)
          /\ UNCHANGED fs
    /\ UNCHANGED hist

\* Variant: the file is opened and nothing is dumped.
LoginDumpSkipped(p) ==
    /\ proc[p].pc = "l_dump"
    /\ Step(p, "l_ls_eval", proc[p])
    /\ UNCHANGED <<fs, hist>>

\*     json.dump(cookies, f, indent=2)
LoginDump(p) ==
    /\ proc[p].pc = "l_dump"
    /\ fs' = [fs EXCEPT !.cookies = WriteAt0(@, JsonDump(proc[p].cookies))]
    /\ WriteStep(p, "l_ls_eval", proc[p], {"l_dump", "f_dump"})
    /\ hist' = [hist EXCEPT !.persisted = TRUE, !.lastPersist = proc[p].cookies,
                            !.ckClean = ~proc[p].stale]

\* except Exception as e: print("Could not save localStorage")
LoginLsFailed(p) == Step(p, "l_print", [proc[p] EXCEPT !.ls_failed = TRUE])

\* Variant: the evaluation outside the try.
LoginLsEvalUncaught(p) ==
    /\ proc[p].pc = "l_ls_eval"
    /\ \/ \E s \in Snapshots :
            Step(p, "l_ls_open", [proc[p] EXCEPT !.local_storage = JsonDump(Dict(s))])
       \/ Abort(p)
    /\ UNCHANGED <<fs, hist>>

\* try: local_storage = await page.evaluate("() => JSON.stringify(localStorage)")
LoginLsEval(p) ==
    /\ proc[p].pc = "l_ls_eval"
    /\ \/ \E s \in Snapshots :
            Step(p, "l_ls_open", [proc[p] EXCEPT !.local_storage = JsonDump(Dict(s))])
       \/ LoginLsFailed(p)
    /\ UNCHANGED <<fs, hist>>

\*     with open(ls_path, 'w') as f:
LoginLsOpen(p) ==
    /\ proc[p].pc = "l_ls_open"
    /\ \/ /\ fs' = [fs EXCEPT !.localStorage = OpenW(@)]
          /\ Step(p, "l_ls_write", [proc[p] EXCEPT !.stale = FALSE])
       \/ /\ LoginLsFailed(p)
          /\ UNCHANGED fs
    /\ UNCHANGED hist

\*         f.write(local_storage)
LoginLsWrite(p) ==
    /\ proc[p].pc = "l_ls_write"
    /\ fs' = [fs EXCEPT !.localStorage = WriteAt0(@, proc[p].local_storage)]
    /\ WriteStep(p, "l_print", proc[p], {"l_ls_write"})
    /\ hist' = [hist EXCEPT !.lsSaved = TRUE, !.lastLs = proc[p].local_storage,
                            !.lsClean = ~proc[p].stale]

\* print("Saved N cookies"); the browser closes; the coroutine returns.
LoginPrint(p) ==
    /\ proc[p].pc = "l_print"
    /\ Finish(p, "returned")
    /\ hist' = [hist EXCEPT !.completed = TRUE, !.lastDone = proc[p].cookies]
    /\ UNCHANGED fs

----------------------------------------------------------------------------
\* fetch_with_session

\* cookies_path = get_cookies_path(...); profile_path = get_profile_path(...)
FetchPaths(p) ==
    /\ proc[p].pc = "f_paths"
    /\ fs' = get_profile_path(fs)
    /\ Step(p, "f_load", proc[p])
    /\ UNCHANGED hist

\* Variant: the two branches in the other order.
CookieSourceProfileFirst(import_cookies, exists) ==
    IF exists THEN "profile"
    ELSE IF import_cookies THEN "import"
    ELSE "none"

\* if import_cookies: ... elif cookies_path.exists(): ... else: ...
CookieSource(import_cookies, exists) ==
    IF import_cookies THEN "import"
    ELSE IF exists THEN "profile"
    ELSE "none"

\* cookies = []; then json.load of the file chosen.  open() may raise, and
\* json.load does on a text that is no JSON document.
FetchLoad(p) ==
    /\ proc[p].pc = "f_load"
    /\ LET s == CookieSource(proc[p].import_cookies, fs.cookies.exists)
           had == fs.cookies.exists
       IN  \/ /\ s = "import"
              /\ \E text \in ImportTexts :
                    Step(p, "f_proxy", [proc[p] EXCEPT !.cookies = JsonLoad(text),
                                                       !.import_data = text,
                                                       !.src = s, !.had_session = had])
           \/ /\ s = "profile"
              /\ JsonValid(fs.cookies.data)
              /\ Step(p, "f_proxy", [proc[p] EXCEPT !.cookies = JsonLoad(fs.cookies.data),
                                                    !.src = s, !.had_session = had])
           \/ /\ s = "none"
              /\ Step(p, "f_proxy", proc[p])
           \/ /\ s # "none"
              /\ Abort(p)
    /\ UNCHANGED <<fs, hist>>

\* config = {"headless": headless}; if proxy: ...
FetchProxy(p) ==
    /\ proc[p].pc = "f_proxy"
    /\ \E headless \in BOOLEAN :
        LET r == BuildConfig(headless, proc[p].proxy)
        IN  IF r.ok THEN Step(p, "f_launch", [proc[p] EXCEPT !.config = r.config])
            ELSE Abort(p)
    /\ UNCHANGED <<fs, hist>>

\* async with AsyncCamoufox(**config) as browser: page = await browser.new_page()
FetchLaunch(p) ==
    /\ proc[p].pc = "f_launch"
    /\ \/ Step(p, "f_inject", [proc[p] EXCEPT !.proxy = <<>>, !.config = NoConfig])
       \/ Abort(p)
    /\ UNCHANGED <<fs, hist>>

\* Variant: no injection before the navigation.
FetchInjectSkipped(p) ==
    /\ proc[p].pc = "f_inject"
    /\ Step(p, "f_ls_check", proc[p])
    /\ UNCHANGED <<fs, hist>>

\* if cookies: await page.context.add_cookies(cookies)
FetchInject(p) ==
    /\ proc[p].pc = "f_inject"
    /\ \/ /\ proc[p].cookies.items = <<>>
          /\ Step(p, "f_ls_check", proc[p])
       \/ /\ proc[p].cookies.items # <<>>
          /\ \/ Step(p, "f_ls_check", [proc[p] EXCEPT !.injected = proc[p].cookies.items])
             \/ Abort(p)
    /\ UNCHANGED <<fs, hist>>

\* ls_path = profile_path / "localStorage.json"; if ls_path.exists(): ... else: ...
FetchLsCheck(p) ==
    /\ proc[p].pc = "f_ls_check"
    /\ IF fs.localStorage.exists THEN Step(p, "f_ls_read", proc[p])
       ELSE Step(p, "f_goto", proc[p])
    /\ UNCHANGED <<fs, hist>>

\* except Exception as e: print("Could not restore localStorage"), then the
\* fallback navigation.
RestoreFailed(p) ==
    Step(p, "f_fallback", [proc[p] EXCEPT !.restore_failed = TRUE,
                                          !.local_storage = <<>>, !.idx = 0])

\* Variant: the snapshot opened with 'w'.
FetchLsReadTruncating(p) ==
    /\ proc[p].pc = "f_ls_read"
    /\ fs' = [fs EXCEPT !.localStorage = OpenW(@)]
    /\ RestoreFailed(p)
    /\ UNCHANGED hist

\* try: with open(ls_path, 'r') as f: local_storage = json.load(f)
FetchLsRead(p) ==
    /\ proc[p].pc = "f_ls_read"
    /\ \/ /\ JsonValid(fs.localStorage.data)
          /\ Step(p, "f_goto1", [proc[p] EXCEPT
                                   !.local_storage = JsonLoad(fs.localStorage.data)])
       \/ RestoreFailed(p)
    /\ UNCHANGED <<fs, hist>>

\* Variant: the first navigation outside the try.
FetchGotoFirstUncaught(p) ==
    /\ proc[p].pc = "f_goto1"
    /\ \/ Step(p, "f_items", [proc[p] EXCEPT !.nav = "first", !.idx = 1])
       \/ Abort(p)
    /\ UNCHANGED <<fs, hist>>

\*     await page.goto(url, ...)   (navigate to the domain first)
FetchGotoFirst(p) ==
    /\ proc[p].pc = "f_goto1"
    /\ \/ Step(p, "f_items", [proc[p] EXCEPT !.nav = "first", !.idx = 1])
       \/ RestoreFailed(p)
    /\ UNCHANGED <<fs, hist>>

\*     for key, value in local_storage.items(): await page.evaluate(setItem)
\* .items() raises on a document that is no object.
FetchSetItems(p) ==
    /\ proc[p].pc = "f_items"
    /\ LET ls == proc[p].local_storage
       IN  \/ /\ ls.kind = "dict"
              /\ proc[p].idx <= Len(ls.items)
              /\ Step(p, "f_items", [proc[p] EXCEPT !.idx = @ + 1])
           \/ /\ ls.kind = "dict"
              /\ proc[p].idx > Len(ls.items)
              /\ Step(p, "f_reload", proc[p])
           \/ /\ ls.kind # "dict" \/ proc[p].idx <= Len(ls.items)
              /\ RestoreFailed(p)
    /\ UNCHANGED <<fs, hist>>

\*     await page.reload(...); print("Restored localStorage")
FetchReload(p) ==
    /\ proc[p].pc = "f_reload"
    /\ \/ Step(p, "f_read", [proc[p] EXCEPT !.local_storage = <<>>, !.idx = 0])
       \/ RestoreFailed(p)
    /\ UNCHANGED <<fs, hist>>

\* except ...: await page.goto(url, ...)
FetchFallback(p) ==
    /\ proc[p].pc = "f_fallback"
    /\ \/ Step(p, "f_read", [proc[p] EXCEPT !.nav = "fallback"])
       \/ Abort(p)
    /\ UNCHANGED <<fs, hist>>

\* else: await page.goto(url, ...)
FetchGoto(p) ==
    /\ proc[p].pc = "f_goto"
    /\ \/ Step(p, "f_read", [proc[p] EXCEPT !.nav = "direct"])
       \/ Abort(p)
    /\ UNCHANGED <<fs, hist>>

\* await asyncio.sleep(wait); title = await page.title(); content = await page.content()
\* Nothing reads cookies from here on: the list read and the record of its
\* injection are dropped.
FetchRead(p) ==
    /\ proc[p].pc = "f_read"
    /\ \/ Step(p, "f_cookies", [proc[p] EXCEPT !.cookies = List(<<>>), !.injected = <<>>,
                                                !.import_data = <<>>])
       \/ Abort(p)
    /\ UNCHANGED <<fs, hist>>

\* new_cookies = await page.context.cookies()
FetchCookies(p) ==
    /\ proc[p].pc = "f_cookies"
    /\ \/ \E jar \in Jars : Step(p, "f_open", [proc[p] EXCEPT !.new_cookies = List(jar)])
       \/ Abort(p)
    /\ UNCHANGED <<fs, hist>>

\* Variant: cookies are persisted only when a session was sourced.
FetchOpenIfSession(p) ==
    /\ proc[p].pc = "f_open"
    /\ \/ /\ proc[p].src # "none"
          /\ fs' = [fs EXCEPT !.cookies = OpenW(@)]
          /\ Step(p, "f_dump", [proc[p] EXCEPT !.stale = FALSE])
       \/ /\ proc[p].src = "none"
          /\ Step(p, "f_save", proc[p])
          /\ UNCHANGED fs
       \/ /\ Abort(p)
          /\ UNCHANGED fs
    /\ UNCHANGED hist

\* with open(cookies_path, 'w') as f:
FetchOpen(p) ==
    /\ proc[p].pc = "f_open"
    /\ \/ /\ fs' = [fs EXCEPT !.cookies = OpenW(@)]
          /\ Step(p, "f_dump", [proc[p] EXCEPT !.stale = FALSE])
       \/ /\ Abort(p)
          /\ UNCHANGED fs
    /\ UNCHANGED hist

\*     json.dump(new_cookies, f, indent=2)
FetchDump(p) ==
    /\ proc[p].pc = "f_dump"
    /\ fs' = [fs EXCEPT !.cookies = WriteAt0(@, JsonDump(proc[p].new_cookies))]
    /\ WriteStep(p, "f_save", proc[p], {"l_dump", "f_dump"})
    /\ hist' = [hist EXCEPT !.persisted = TRUE, !.lastPersist = proc[p].new_cookies,
                            !.ckClean = ~proc[p].stale]

\* the title warning; if screenshot: page.screenshot(...); if output: open(output, 'w')
FetchSave(p) ==
    /\ proc[p].pc = "f_save"
    /\ \/ Step(p, "f_return", proc[p])
       \/ Abort(p)
    /\ UNCHANGED <<fs, hist>>

\* print("Success!"); return content
FetchReturn(p) ==
    /\ proc[p].pc = "f_return"
    /\ Finish(p, "returned")
    /\ hist' = [hist EXCEPT !.completed = TRUE, !.lastDone = proc[p].new_cookies]
    /\ UNCHANGED fs

----------------------------------------------------------------------------
\* Specifications.

ExportSteps(p) ==
    \/ ExportCheck(p) \/ ExportRead(p) \/ ExportOpen(p) \/ ExportDump(p) \/ ExportPrint(p)

LoginSteps(p) ==
    \/ LoginPaths(p) \/ LoginProxy(p) \/ LoginLaunch(p) \/ LoginGoto(p) \/ LoginInput(p)
    \/ LoginCookies(p) \/ LoginOpen(p) \/ LoginDump(p)
    \/ LoginLsEval(p) \/ LoginLsOpen(p) \/ LoginLsWrite(p) \/ LoginPrint(p)

FetchSteps(p) ==
    \/ FetchPaths(p) \/ FetchLoad(p) \/ FetchProxy(p) \/ FetchLaunch(p) \/ FetchInject(p)
    \/ FetchLsCheck(p) \/ FetchLsRead(p) \/ FetchGotoFirst(p) \/ FetchSetItems(p)
    \/ FetchReload(p) \/ FetchFallback(p) \/ FetchGoto(p) \/ FetchRead(p)
    \/ FetchCookies(p) \/ FetchOpen(p) \/ FetchDump(p) \/ FetchSave(p) \/ FetchReturn(p)

\* Invocations run one after another.
Next ==
    \/ Start(1) \/ Again(1)
    \/ ExportSteps(1) \/ LoginSteps(1) \/ FetchSteps(1)

Spec == Init /\ [][Next]_vars

\* Two invocations at the same time on a profile that earlier invocations,
\* run one after another, left with or without a session.
InitConc ==
    /\ \E ck \in {<<>>} \cup {<<j>> : j \in Jars}, ls \in {<<>>} \cup {<<t>> : t \in Snapshots} :
        /\ fs = [dir |-> ck # <<>>,
                 cookies |-> IF ck = <<>> THEN NoFile
                             ELSE [exists |-> TRUE, data |-> JsonDump(List(ck[1]))],
                 localStorage |-> IF ck = <<>> \/ ls = <<>> THEN NoFile
                                  ELSE [exists |-> TRUE, data |-> JsonDump(Dict(ls[1]))],
                 dest |-> NoFile]
        /\ hist = IF ck = <<>> THEN NoHist
                  ELSE [NoHist EXCEPT
                          !.persisted = TRUE, !.lastPersist = List(ck[1]),
                          !.completed = TRUE, !.lastDone = List(ck[1]),
                          !.lsSaved = (ls # <<>>),
                          !.lastLs = IF ls = <<>> THEN <<>> ELSE JsonDump(Dict(ls[1]))]
    /\ proc = [p \in Procs |-> Idle]

NextConc == \E p \in Procs : StartConc(p) \/ LoginSteps(p) \/ FetchSteps(p)

SpecConc == InitConc /\ [][NextConc]_vars

\* The proxy parser alone: an invocation about to build its configuration,
\* for every --proxy argument of ProxyInputs.
Users == {<<"u">>, <<"u", "s", "e", "r">>, <<"h", "t", "t", "p">>}
Passwords == {<<"p">>, <<"p", "a", "s", "s">>}
Hosts == {<<"h", "o", "s", "t">>, <<"1", "0", ".", "0", ".", "0", ".", "1">>}
Ports == {<<"8", "0">>, <<"1", "2", "3", "4">>}
Schemes == {HttpScheme, HttpsScheme, <<>>, <<"s", "o", "c", "k", "s", "5", ":", "/", "/">>}

ProxyInputs ==
    {s \o u \o <<":">> \o pw \o <<"@">> \o h \o <<":">> \o pt :
        s \in Schemes, u \in Users, pw \in Passwords, h \in Hosts, pt \in Ports}
    \cup {s \o h \o <<":">> \o pt : s \in Schemes, h \in Hosts, pt \in Ports}
    \cup {s \o u \o <<":">> \o pw \o <<"@">> \o h : s \in Schemes, u \in Users, pw \in Passwords, h \in Hosts}
    \cup {s \o u \o <<"@">> \o h \o <<":">> \o pt : s \in Schemes, u \in Users, h \in Hosts, pt \in Ports}
    \cup {HttpScheme \o <<"u", ":", "p", "@", "x", "@", "h", ":", "8", "0">>, <<>>}

InitProxy ==
    /\ fs = [dir |-> TRUE, cookies |-> NoFile, localStorage |-> NoFile, dest |-> NoFile]
    /\ hist = NoHist
    /\ \E mode \in {"login", "fetch"}, proxy \in ProxyInputs :
          proc = [p \in Procs |->
                    IF p = 1
                    THEN [Idle EXCEPT !.mode = mode, !.proxy = proxy,
                                      !.pc = IF mode = "login" THEN "l_proxy" ELSE "f_proxy"]
                    ELSE Idle]

NextProxy == LoginProxy(1) \/ FetchProxy(1)

SpecProxy == InitProxy /\ [][NextProxy]_vars

----------------------------------------------------------------------------
\* Properties.

Quiescent == \A p \in Procs : proc[p].pc \in Terminal \cup {"idle"}

FileWith(text) == [exists |-> TRUE, data |-> text]

\* p took a step.
Moved(p) == proc'[p] # proc[p]

\* C1: a fetch given an import file, on a profile that has cookies.json, reads
\* the import file and not cookies.json, hands add_cookies exactly the import
\* file's cookies, and ends with cookies.json holding the jar it read from the
\* browser.
C1_ImportOverridesProfile ==
    \A p \in Procs :
        LET r == proc[p]
        IN  /\ (r.mode = "fetch" /\ r.import_cookies /\ r.had_session) =>
                /\ r.src = "import"
                /\ r.pc \in {"f_proxy", "f_launch", "f_inject", "f_ls_check", "f_ls_read",
                             "f_goto1", "f_items", "f_reload", "f_fallback", "f_goto", "f_read"}
                     => r.cookies = JsonLoad(r.import_data)
                /\ r.pc \in {"f_ls_check", "f_ls_read", "f_goto1", "f_items", "f_reload",
                             "f_fallback", "f_goto", "f_read"}
                     => r.injected = JsonLoad(r.import_data).items
                /\ r.pc \in {"f_save", "f_return"}
                     => fs.cookies = FileWith(JsonDump(r.new_cookies))
            /\ (r.mode = "fetch" /\ r.pc = "returned") =>
                fs.cookies = FileWith(JsonDump(hist.lastDone))

C1_Witness ==
    /\ proc[1].pc = "f_return"
    /\ proc[1].import_cookies
    /\ proc[1].had_session
    /\ proc[1].nav # "none"

\* C2: a failure of any step of the localStorage restoration is caught and
\* leads to the fallback navigation, never to the end of the fetch; the fetch
\* then goes on, step by step, to rewrite cookies.json and return.
RestoreSteps == {"f_ls_read", "f_goto1", "f_items", "f_reload"}

AfterFallback(pc) ==
    CASE pc = "f_fallback" -> "f_read"
      [] pc = "f_read" -> "f_cookies"
      [] pc = "f_cookies" -> "f_open"
      [] pc = "f_open" -> "f_dump"
      [] pc = "f_dump" -> "f_save"
      [] pc = "f_save" -> "f_return"
      [] pc = "f_return" -> "returned"
      [] OTHER -> "none"

C2_RestoreNeverAborts ==
    /\ [](\A p \in Procs :
            /\ proc[p].restore_failed /\ proc[p].pc \in {"f_read", "f_cookies", "f_open",
                                                       "f_dump", "f_save", "f_return"}
                 => proc[p].nav = "fallback"
            /\ proc[p].restore_failed /\ proc[p].pc \in {"f_save", "f_return"}
                 => fs.cookies = FileWith(JsonDump(proc[p].new_cookies)))
    /\ [][\A p \in Procs :
            /\ (proc[p].pc \in RestoreSteps /\ Moved(p)) =>
                 /\ proc'[p].pc \in RestoreSteps \cup {"f_fallback", "f_read"}
                 /\ proc'[p].pc = "f_fallback" <=> proc'[p].restore_failed
            /\ (proc[p].restore_failed /\ Moved(p)) =>
                 proc'[p].pc \in {AfterFallback(proc[p].pc), "aborted"}]_vars

C2_Witness ==
    /\ proc[1].pc = "f_return"
    /\ proc[1].restore_failed
    /\ proc[1].nav = "fallback"

\* C3: an export for a profile without cookies.json ends with exit status 1
\* and writes nothing: neither the destination nor cookies.json is created or
\* changed.
C3_ExportMissingSession ==
    /\ [](\A p \in Procs :
            proc[p].pc = "exited1" =>
                /\ proc[p].mode = "export"
                /\ ~fs.cookies.exists
                /\ fs.dest \in DestFiles)
    /\ [][\A p \in Procs :
            (proc[p].pc = "e_check" /\ ~fs.cookies.exists /\ Moved(p)) =>
                /\ proc'[p].pc = "exited1"
                /\ fs'.dest = fs.dest
                /\ fs'.cookies = fs.cookies
                /\ fs'.localStorage = fs.localStorage]_vars

C3_Witness ==
    /\ proc[1].pc = "exited1"
    /\ fs.dest = FileWith(<<"x">>)
    /\ fs.dir

\* C4 as stated: between invocations cookies.json, when it exists, holds the
\* jar read by the most recent login or fetch that completed.
C4_LastCompletedJar ==
    Quiescent =>
        (fs.cookies.exists =>
            hist.completed /\ fs.cookies.data = JsonDump(hist.lastDone))

\* C4 as amended: between invocations cookies.json exists exactly when some
\* login or fetch has performed its cookie write, and then holds exactly (no
\* merge) the jar that invocation read, whether or not the invocation then
\* completed; no step of an export changes the file.
C4_LastPersistedJar ==
    /\ [](Quiescent =>
            /\ fs.cookies.exists <=> hist.persisted
            /\ fs.cookies.exists => fs.cookies.data = JsonDump(hist.lastPersist))
    /\ [][\A p \in Procs :
            proc[p].mode = "export" => fs'.cookies = fs.cookies]_vars

C4_Witness ==
    /\ proc[1].pc = "aborted"
    /\ proc[1].mode = "fetch"
    /\ hist.completed
    /\ hist.lastDone # hist.lastPersist
    /\ fs.cookies.data = JsonDump(hist.lastPersist)

\* C5: once the page of a fetch has been navigated, whatever the path, a
\* non-empty cookie list that was sourced has already been given to
\* add_cookies.
C5_InjectBeforeNavigate ==
    \A p \in Procs :
        (proc[p].mode = "fetch" /\ proc[p].nav # "none" /\ proc[p].cookies.items # <<>>)
            => proc[p].injected = proc[p].cookies.items

C5_Witness ==
    /\ proc[1].mode = "fetch"
    /\ proc[1].nav = "fallback"
    /\ proc[1].src = "profile"
    /\ proc[1].injected # <<>>

\* C6: a login about to return has cookies.json holding the jar it read after
\* the confirmation, with or without a localStorage failure; the localStorage
\* steps neither end the login nor touch cookies.json.
C6_LoginKeepsCookies ==
    /\ [](\A p \in Procs :
            /\ proc[p].pc = "l_print" => fs.cookies = FileWith(JsonDump(proc[p].cookies))
            /\ proc[p].pc = "returned" /\ proc[p].mode = "login"
                 => fs.cookies = FileWith(JsonDump(hist.lastDone)))
    /\ [][\A p \in Procs :
            (proc[p].pc \in {"l_ls_eval", "l_ls_open", "l_ls_write"} /\ Moved(p)) =>
                /\ proc'[p].pc \in {"l_ls_open", "l_ls_write", "l_print"}
                /\ fs'.cookies = fs.cookies]_vars

C6_Witness ==
    /\ proc[1].pc = "l_print"
    /\ proc[1].ls_failed
    /\ proc[1].cookies.items # <<>>

ProxyExpected(proxy, r) ==
    /\ \A u \in Users, pw \in Passwords, h \in Hosts, pt \in Ports :
          proxy = HttpScheme \o u \o <<":">> \o pw \o <<"@">> \o h \o <<":">> \o pt =>
              /\ r.pc \in {"l_launch", "f_launch"}
              /\ "proxy" \in DOMAIN r.config
              /\ r.config.proxy = [server |-> HttpScheme \o h \o <<":">> \o pt,
                                   username |-> u, password |-> pw]
    /\ (proxy # <<>> /\ ~StrContains(proxy, "@")) =>
          /\ r.pc \in {"l_launch", "f_launch"}
          /\ "proxy" \in DOMAIN r.config
          /\ r.config.proxy = [server |-> proxy]
          /\ DOMAIN r.config.proxy = {"server"}

C8_ProxyParsing ==
    [][\A p \in Procs :
         (proc[p].pc \in {"l_proxy", "f_proxy"} /\ Moved(p)) =>
             ProxyExpected(proc[p].proxy, proc'[p])]_vars

C8_Witness ==
    /\ proc[1].pc = "l_launch"
    /\ proc[1].proxy = HttpScheme \o <<"u", "s", "e", "r", ":", "p", "a", "s", "s", "@",
                                       "h", "o", "s", "t", ":", "1", "2", "3", "4">>
    /\ proc[1].config.proxy.username = <<"u", "s", "e", "r">>

AllReturned == \A p \in Procs : proc[p].pc = "returned"

\* C9 as stated: after two simultaneous invocations that both ran to
\* completion, cookies.json is the jar of the process that wrote last and
\* localStorage.json the snapshot of the login that wrote last.
C9_LastWriterWins ==
    AllReturned =>
        /\ fs.cookies.data = JsonDump(hist.lastPersist)
        /\ fs.localStorage.exists => fs.localStorage.data = hist.lastLs

\* C9 as amended: the file is the last writer's text when no other process
\* wrote it between the last writer's open (which truncates) and its write.
C9_LastWriterWinsIfNotOvertaken ==
    AllReturned =>
        /\ hist.ckClean => fs.cookies = FileWith(JsonDump(hist.lastPersist))
        /\ (fs.localStorage.exists /\ hist.lsClean) => fs.localStorage.data = hist.lastLs

C9_Witness ==
    /\ AllReturned
    /\ proc[1].mode = "login" /\ proc[2].mode = "login"
    /\ hist.ckClean /\ hist.lsClean
    /\ fs.localStorage.data = hist.lastLs
    /\ Len(hist.lastLs) > 2

\* C10: a fetch about to return, or returned, has cookies.json on disk, also on
\* a profile that had no session; once a login or fetch has completed no export
\* ends with the missing-session exit; and the only steps of a fetch that
\* change cookies.json are its open for writing and its dump.
C10_FetchCreatesSession ==
    /\ [](/\ \A p \in Procs :
               (proc[p].mode = "fetch" /\ proc[p].pc \in {"f_return", "returned"})
                   => fs.cookies.exists /\ JsonValid(fs.cookies.data)
          /\ hist.completed =>
               /\ fs.cookies.exists
               /\ \A p \in Procs : proc[p].pc # "exited1")
    /\ [][\A p \in Procs :
            (proc[p].mode = "fetch" /\ fs'.cookies # fs.cookies)
                => proc[p].pc \in {"f_open", "f_dump"}]_vars

C10_Witness ==
    /\ proc[1].mode = "fetch"
    /\ proc[1].pc = "f_return"
    /\ proc[1].src = "none"
    /\ ~proc[1].had_session
    /\ ~hist.completed
    /\ fs.cookies = FileWith(<<"[", "]">>)

====
